---- MODULE Spec2Model ----
(***************************************************************************)
(* Model of cs2/src/state/bomb.rs: the two State::create derivations       *)
(* PlantedC4::create and BombCarrierInfo::create.                          *)
(*                                                                         *)
(* One run of the model is one create() call.  `kind` says which of the    *)
(* two derivations was requested.  The entity directory is consumed        *)
(* through its iterator, and every read of the remote process is a         *)
(* nondeterministic choice made where the code performs the read.  `seen`  *)
(* records, for every entity the loop has left behind, what the loop read  *)
(* of it; the locals of the current iteration are the variables            *)
(* class_name, bomb, position, chain, defusing (PlantedC4) and class_name, *)
(* owner_handle, owner_pawn, name_chain, carrier_name (BombCarrierInfo).   *)
(* Fields of a local copy (the C_PlantedC4 value_copy, the scene node      *)
(* copy, StateGlobals) are read without failure; reads through a remote    *)
(* reference can fail where the code propagates them with `?`.             *)
(***************************************************************************)
EXTENDS Integers, Sequences, FiniteSets, TLC

\* ------------------------------------------------------------------ bounds
\* Longest entity directory the iterator yields.
MaxEntities == 3
\* Largest finite time value (clock, m_flC4Blow, m_flDefuseCountDown).
MaxTime == 2
\* Size of the fixed-size m_iszPlayerName buffer.
NameLen == 2
\* Largest entity index a handle carries.
MaxIndex == 1

\* ------------------------------------------------------- Option and Result
None == [some |-> FALSE]
Some(v) == [some |-> TRUE, value |-> v]
Ok(v) == [ok |-> TRUE, value |-> v]
Err(msg) == [ok |-> FALSE, error |-> msg]
\* The value of `result` while create() is still running.
Pending == [ok |-> FALSE, error |-> "pending"]

\* --------------------------------------------------------------------- f32
\* f32 values: the integers (exactly representable, and subtracted exactly,
\* in the range used here), the two infinities and NaN.
Num(n) == [k |-> "num", v |-> n]
PosInf == [k |-> "inf", v |-> 1]
NegInf == [k |-> "inf", v |-> -1]
NaN == [k |-> "nan", v |-> 0]

IsNaN(a) == a.k = "nan"

\* IEEE-754 `a <= b`: false as soon as one side is NaN.
FLe(a, b) ==
    IF IsNaN(a) \/ IsNaN(b) THEN FALSE
    ELSE IF a.k = "inf" THEN (a.v = -1 \/ (b.k = "inf" /\ b.v = 1))
    ELSE IF b.k = "inf" THEN b.v = 1
    ELSE a.v <= b.v

\* IEEE-754 `a - b`.
FSub(a, b) ==
    IF IsNaN(a) \/ IsNaN(b) THEN NaN
    ELSE IF a.k = "inf" /\ b.k = "inf" THEN (IF a.v = b.v THEN NaN ELSE a)
    ELSE IF a.k = "inf" THEN a
    ELSE IF b.k = "inf" THEN [k |-> "inf", v |-> -b.v]
    ELSE Num(a.v - b.v)

\* The values a time field read from the remote process is drawn from.
F32Inputs == {Num(n) : n \in 0..MaxTime} \cup {PosInf, NegInf, NaN}

\* The readings of the game clock: finite, never negative.
ClockReadings == {Num(n) : n \in 0..MaxTime}

\* ---------------------------------------------------------------- strings
\* Bytes of a player-name buffer: NUL and 'A'.
NameBytes == {0, 65}
NameBuffers == [1..NameLen -> NameBytes]

\* "Name Error" (line 171), as bytes.
NameError == <<78, 97, 109, 101, 32, 69, 114, 114, 111, 114>>

\* Index of the first NUL of buf, 0 when there is none.
RECURSIVE FirstNul(_, _)
FirstNul(buf, i) ==
    IF i > Len(buf) THEN 0
    ELSE IF buf[i] = 0 THEN i
    ELSE FirstNul(buf, i + 1)

\* CStr::from_bytes_until_nul(..).ok(): the bytes before the first NUL, or
\* None when the buffer holds no NUL.
from_bytes_until_nul(buf) ==
    IF FirstNul(buf, 1) = 0 THEN None
    ELSE Some(SubSeq(buf, 1, FirstNul(buf, 1) - 1))

\* ---------------------------------------------------------------- handles
InvalidHandle == [valid |-> FALSE, index |-> 0]
Handles == {InvalidHandle} \cup {[valid |-> TRUE, index |-> n] : n \in 0..MaxIndex}
is_valid(h) == h.valid
get_entity_index(h) == h.index

\* Outcomes of entities.entity_from_handle(h) followed by value_reference:
\* no identity for the handle, an identity whose pointer is null, a reference.
Resolutions == {"missing", "nullptr", "ok"}
entity_from_handle(h) == IF is_valid(h) THEN Resolutions ELSE {"missing"}

\* ------------------------------------------------------------ class names
PlantedClass == "C_PlantedC4"
CarryableClass == "C_C4"
\* Outcomes of class_name_cache.lookup(&entity_identity.entity_class_info()?):
\* a name, Ok(None) ("absent"), or an error ("fail").
ClassLookups == {PlantedClass, CarryableClass, "absent", "fail"}

\* ------------------------------------------------------------------- state
VARIABLES
    kind,          \* which State::create runs: "PlantedC4" or "BombCarrierInfo"
    pc,            \* position of the call in create()
    globals,       \* StateGlobals resolved for the call: the clock reading
    entities,      \* the directory iterator: "unresolved", "iter", "exhausted"
    seen,          \* what was read of each entity the loop has left behind
    class_name,    \* class lookup of the current entity
    bomb,          \* PlantedC4: the value_copy of the C_PlantedC4 entity
    position,      \* PlantedC4: m_vecAbsOrigin of the scene node
    chain,         \* PlantedC4: outcome of the defuser handle chain
    defusing,      \* PlantedC4: Option<BombDefuser>
    owner_handle,  \* BombCarrierInfo: m_hOwnerEntity of the C4
    owner_pawn,    \* BombCarrierInfo: controller handle and team of the owner
    name_chain,    \* BombCarrierInfo: outcome of the controller/name chain
    carrier_name,  \* BombCarrierInfo: Option<String>
    result         \* what create() returned

vars == <<kind, pc, globals, entities, seen, class_name, bomb, position, chain, defusing,
          owner_handle, owner_pawn, name_chain, carrier_name, result>>

plantedLocals == <<bomb, position, chain, defusing>>
carrierLocals == <<owner_handle, owner_pawn, name_chain, carrier_name>>

\* Values of the locals before they are assigned in an iteration.
NoClass == "unread"
NoBomb == [read |-> FALSE]
NoPosition == <<>>
NoChain == [pawn |-> "unconsulted", controller |-> "unconsulted", name |-> None]
NoHandle == [read |-> FALSE]
NoPawn == [read |-> FALSE]
NoNameChain == [controller |-> "unconsulted", name |-> None]

\* Vector3::default()
Origin == <<0, 0, 0>>
Positions == {Origin, <<1, 2, 3>>}

\* The C_PlantedC4 copies value_copy can return.
Bombs ==
    [read : {TRUE},
     m_bC4Activated : BOOLEAN,
     m_nBombSite : {0, 1},
     m_bBombDefused : BOOLEAN,
     m_flC4Blow : F32Inputs,
     m_bBeingDefused : BOOLEAN,
     m_flDefuseCountDown : F32Inputs]

Init ==
    /\ kind \in {"PlantedC4", "BombCarrierInfo"}
    /\ pc = "start"
    /\ globals = Num(0)
    /\ entities = "unresolved"
    /\ seen = <<>>
    /\ class_name = NoClass
    /\ bomb = NoBomb
    /\ position = NoPosition
    /\ chain = NoChain
    /\ defusing = None
    /\ owner_handle = NoHandle
    /\ owner_pawn = NoPawn
    /\ name_chain = NoNameChain
    /\ carrier_name = None
    /\ result = Pending

\* `return Err(..)` / `?` on a failure.
Fail(msg) ==
    /\ pc' = "done"
    /\ result' = Err(msg)

\* `return Ok(..)`.
Return(v) ==
    /\ pc' = "done"
    /\ result' = Ok(v)

\* `continue`: the locals of the iteration are dropped, the loop asks the
\* iterator for the next entity.
Continue(entity) ==
    /\ pc' = "scan"
    /\ seen' = Append(seen, entity)
    /\ class_name' = NoClass
    /\ bomb' = NoBomb
    /\ position' = NoPosition
    /\ owner_handle' = NoHandle
    /\ UNCHANGED <<kind, globals, entities, chain, defusing, owner_pawn,
                   name_chain, carrier_name, result>>

\* time_2() of the resolved StateGlobals: the clock reading of this call.
time_2 == globals

\* ------------------------------------------------- PlantedC4 (lines 85-203)
\* PlantedC4State
Active(time_detonation) == [tag |-> "Active", time_detonation |-> time_detonation]
Detonated == [tag |-> "Detonated"]
Defused == [tag |-> "Defused"]
NotPlanted == [tag |-> "NotPlanted"]

\* struct PlantedC4
PlantedC4(bomb_site, state, pos, defuser) ==
    [bomb_site |-> bomb_site, state |-> state, position |-> pos, defuser |-> defuser]

\* struct BombDefuser
BombDefuser(time_remaining, player_name) ==
    [time_remaining |-> time_remaining, player_name |-> player_name]

\* `bomb.m_nBombSite()? as u8`
BombSite(b) == b.m_nBombSite % 256

\* Lines 89-92: the four states.resolve calls; StateGlobals carries the clock
\* reading of this call.
PlantedResolve ==
    /\ kind = "PlantedC4"
    /\ pc = "start"
    /\ \/ /\ Fail("resolve")
          /\ UNCHANGED globals
          /\ UNCHANGED entities
       \/ /\ globals' \in ClockReadings
          /\ entities' = "iter"
          /\ pc' = "scan"
          /\ UNCHANGED result
    /\ UNCHANGED <<kind, seen, class_name, plantedLocals, carrierLocals>>

\* Faulty variant of PlantedClassName: `.context("class name")?` applied to
\* the Option of the lookup, so that an entity without a cached class name
\* ends the call.
PlantedClassName_AbsentFails ==
    /\ kind = "PlantedC4"
    /\ pc = "scan"
    /\ Len(seen) < MaxEntities
    /\ \E c \in ClassLookups :
        IF c \in {"fail", "absent"}
        THEN /\ Fail("class name")
             /\ class_name' = c
             /\ UNCHANGED <<kind, globals, entities, seen, plantedLocals, carrierLocals>>
        ELSE IF c # PlantedClass
        THEN Continue([class_name |-> c])
        ELSE /\ pc' = "bomb"
             /\ class_name' = c
             /\ UNCHANGED <<kind, globals, entities, seen, plantedLocals, carrierLocals, result>>

\* Lines 94-105: the iterator yields an entity; its class name is looked up
\* and every entity that is not the planted bomb is skipped.
PlantedClassName ==
    /\ kind = "PlantedC4"
    /\ pc = "scan"
    /\ Len(seen) < MaxEntities
    /\ \E c \in ClassLookups :
        IF c = "fail"
        THEN /\ Fail("class name")
             /\ class_name' = c
             /\ UNCHANGED <<kind, globals, entities, seen, plantedLocals, carrierLocals>>
        ELSE IF c # PlantedClass
        THEN Continue([class_name |-> c])
        ELSE /\ pc' = "bomb"
             /\ class_name' = c
             /\ UNCHANGED <<kind, globals, entities, seen, plantedLocals, carrierLocals, result>>

\* Lines 107-110: value_copy of the entity as C_PlantedC4.
PlantedReadBomb ==
    /\ kind = "PlantedC4"
    /\ pc = "bomb"
    /\ \/ /\ \E msg \in {"entity_ptr", "value_copy", "bomb entity nullptr"} : Fail(msg)
          /\ UNCHANGED bomb
       \/ /\ bomb' \in Bombs
          /\ pc' = "scene_node"
          /\ UNCHANGED result
    /\ UNCHANGED <<kind, globals, entities, seen, class_name, position, chain, defusing, carrierLocals>>

\* Lines 112-121: the scene node of the entity and its m_vecAbsOrigin.
PlantedSceneNode ==
    /\ kind = "PlantedC4"
    /\ pc = "scene_node"
    /\ \/ /\ \E msg \in {"C_BaseEntity pointer was null", "m_pGameSceneNode",
                         "m_pGameSceneNode pointer was null", "copy"} : Fail(msg)
          /\ UNCHANGED position
       \/ /\ position' \in Positions
          /\ pc' = "activated"
          /\ UNCHANGED result
    /\ UNCHANGED <<kind, globals, entities, seen, class_name, bomb, chain, defusing, carrierLocals>>

\* Lines 123-126: a bomb that is not activated is skipped.
PlantedActivated ==
    /\ kind = "PlantedC4"
    /\ pc = "activated"
    /\ IF ~bomb.m_bC4Activated
       THEN Continue([class_name |-> class_name, m_bC4Activated |-> bomb.m_bC4Activated])
       ELSE /\ pc' = "defused"
            /\ UNCHANGED <<kind, globals, entities, seen, class_name, plantedLocals,
                           carrierLocals, result>>

\* Faulty variant of PlantedDefused: the detonation time is tested before the
\* defused flag.
PlantedDefused_BlowFirst ==
    /\ kind = "PlantedC4"
    /\ pc = "defused"
    /\ IF FLe(bomb.m_flC4Blow, time_2)
       THEN Return(PlantedC4(BombSite(bomb), Detonated, position, None))
       ELSE IF bomb.m_bBombDefused
       THEN Return(PlantedC4(BombSite(bomb), Defused, position, None))
       ELSE /\ pc' = "blow"
            /\ UNCHANGED result
    /\ UNCHANGED <<kind, globals, entities, seen, class_name, plantedLocals, carrierLocals>>

\* Lines 128-136: a defused bomb.
PlantedDefused ==
    /\ kind = "PlantedC4"
    /\ pc = "defused"
    /\ IF bomb.m_bBombDefused
       THEN Return(PlantedC4(BombSite(bomb), Defused, position, None))
       ELSE /\ pc' = "blow"
            /\ UNCHANGED result
    /\ UNCHANGED <<kind, globals, entities, seen, class_name, plantedLocals, carrierLocals>>

\* Faulty variant of PlantedBlow: the detonated bomb still reports whoever
\* the being-defused flag announces.
PlantedBlow_WithDefuser ==
    /\ kind = "PlantedC4"
    /\ pc = "blow"
    /\ IF FLe(bomb.m_flC4Blow, time_2)
       THEN Return(PlantedC4(BombSite(bomb), Detonated, position,
                             IF bomb.m_bBeingDefused
                             THEN Some(BombDefuser(FSub(bomb.m_flDefuseCountDown, time_2),
                                                   NameError))
                             ELSE None))
       ELSE /\ pc' = "defusing"
            /\ UNCHANGED result
    /\ UNCHANGED <<kind, globals, entities, seen, class_name, plantedLocals, carrierLocals>>

\* Faulty variant of PlantedBlow: `<` in place of `<=`.
PlantedBlow_Strict ==
    /\ kind = "PlantedC4"
    /\ pc = "blow"
    /\ IF FLe(bomb.m_flC4Blow, time_2) /\ bomb.m_flC4Blow # time_2
       THEN Return(PlantedC4(BombSite(bomb), Detonated, position, None))
       ELSE /\ pc' = "defusing"
            /\ UNCHANGED result
    /\ UNCHANGED <<kind, globals, entities, seen, class_name, plantedLocals, carrierLocals>>

\* Lines 138-147: a bomb whose detonation time has passed.
PlantedBlow ==
    /\ kind = "PlantedC4"
    /\ pc = "blow"
    /\ IF FLe(bomb.m_flC4Blow, time_2)
       THEN Return(PlantedC4(BombSite(bomb), Detonated, position, None))
       ELSE /\ pc' = "defusing"
            /\ UNCHANGED result
    /\ UNCHANGED <<kind, globals, entities, seen, class_name, plantedLocals, carrierLocals>>

\* A read of m_iszPlayerName: an error, or the buffer.
NameReads == {[r |-> "err", bytes |-> <<>>]} \cup {[r |-> "ok", bytes |-> b] : b \in NameBuffers}

\* Lines 153-168: what the defuser chain can meet.  The pawn is
\* entity_from_handle(m_hBombDefuser) then value_reference; the controller
\* is the read of the pawn's m_hController, entity_from_handle of it, then
\* value_reference; the name is the read of the controller's m_iszPlayerName.
DefuserChains ==
    {[pawn |-> p, controller |-> "unconsulted", name |-> None] : p \in {"missing", "nullptr"}}
    \cup {[pawn |-> "ok", controller |-> c, name |-> None] : c \in {"unreadable", "missing", "nullptr"}}
    \cup {[pawn |-> "ok", controller |-> "ok", name |-> Some(n)] : n \in NameReads}

\* The `?` of lines 154-168 that ends the call for chain c, "" when none does.
ChainError(c) ==
    IF c.pawn = "missing" THEN "missing bomb defuser pawn"
    ELSE IF c.pawn = "nullptr" THEN "defuser pawn nullptr"
    ELSE IF c.controller = "unreadable" THEN "m_hController"
    ELSE IF c.controller = "missing" THEN "missing bomb defuser controller"
    ELSE IF c.controller = "nullptr" THEN "defuser constroller nullptr"
    ELSE IF c.name.value.r = "err" THEN "m_iszPlayerName"
    ELSE ""

\* Lines 167-172: the name up to the first NUL, "Name Error" without one.
DefuserName(bytes) ==
    IF from_bytes_until_nul(bytes).some
    THEN from_bytes_until_nul(bytes).value
    ELSE NameError

\* Line 175.
TimeRemaining(time_defuse, now) == FSub(time_defuse, now)

\* Faulty variant of TimeDetonation: the operands swapped.
TimeDetonation_Swapped(time_blow, now) == FSub(now, time_blow)

\* Lines 186-188.
TimeDetonation(time_blow, now) == FSub(time_blow, now)

\* Faulty variant of PlantedDefuser: a chain that does not resolve leaves the
\* defuser out instead of ending the call.
PlantedDefuser_Soft ==
    /\ kind = "PlantedC4"
    /\ pc = "defusing"
    /\ IF bomb.m_bBeingDefused
       THEN \E c \in DefuserChains :
            /\ chain' = c
            /\ defusing' = IF ChainError(c) # ""
                           THEN None
                           ELSE Some(BombDefuser(
                                       TimeRemaining(bomb.m_flDefuseCountDown, time_2),
                                       DefuserName(c.name.value.bytes)))
            /\ pc' = "return"
            /\ UNCHANGED result
       ELSE /\ defusing' = None
            /\ pc' = "return"
            /\ UNCHANGED <<chain, result>>
    /\ UNCHANGED <<kind, globals, entities, seen, class_name, bomb, position, carrierLocals>>

\* Lines 149-180: the defuser of a bomb that is being defused.
PlantedDefuser ==
    /\ kind = "PlantedC4"
    /\ pc = "defusing"
    /\ IF bomb.m_bBeingDefused
       THEN \E c \in DefuserChains :
            /\ chain' = c
            /\ IF ChainError(c) # ""
               THEN /\ Fail(ChainError(c))
                    /\ UNCHANGED defusing
               ELSE /\ defusing' = Some(BombDefuser(
                                       TimeRemaining(bomb.m_flDefuseCountDown, time_2),
                                       DefuserName(c.name.value.bytes)))
                    /\ pc' = "return"
                    /\ UNCHANGED result
       ELSE /\ defusing' = None
            /\ pc' = "return"
            /\ UNCHANGED <<chain, result>>
    /\ UNCHANGED <<kind, globals, entities, seen, class_name, bomb, position, carrierLocals>>

\* Lines 182-189: an active bomb.
PlantedReturnActive ==
    /\ kind = "PlantedC4"
    /\ pc = "return"
    /\ Return(PlantedC4(BombSite(bomb),
                        Active(TimeDetonation(bomb.m_flC4Blow, time_2)),
                        position, defusing))
    /\ UNCHANGED <<kind, globals, entities, seen, class_name, plantedLocals, carrierLocals>>

\* Lines 94 and 192-197: the iterator is exhausted.
PlantedNotPlanted ==
    /\ kind = "PlantedC4"
    /\ pc = "scan"
    /\ entities' = "exhausted"
    /\ Return(PlantedC4(0, NotPlanted, Origin, None))
    /\ UNCHANGED <<kind, globals, seen, class_name, plantedLocals, carrierLocals>>

NextPlanted ==
    \/ PlantedResolve
    \/ PlantedClassName
    \/ PlantedReadBomb
    \/ PlantedSceneNode
    \/ PlantedActivated
    \/ PlantedDefused
    \/ PlantedBlow
    \/ PlantedDefuser
    \/ PlantedReturnActive
    \/ PlantedNotPlanted

\* ------------------------------------------ BombCarrierInfo (lines 205-280)
\* struct BombCarrierInfo
BombCarrierInfo(entity_id, name, team_id) ==
    [carrier_entity_id |-> entity_id, carrier_name |-> name, carrier_team_id |-> team_id]

\* m_iTeamNum values: terrorists and counter-terrorists.
Teams == {2, 3}

\* The fields of the owner pawn read at lines 240-241.
OwnerPawns == [read : {TRUE}, m_hController : Handles, m_iTeamNum : Teams]

\* Lines 209-211: the three states.resolve calls.
CarrierResolve ==
    /\ kind = "BombCarrierInfo"
    /\ pc = "start"
    /\ \/ /\ Fail("resolve")
          /\ UNCHANGED entities
       \/ /\ entities' = "iter"
          /\ pc' = "scan"
          /\ UNCHANGED result
    /\ UNCHANGED <<kind, globals, seen, class_name, plantedLocals, carrierLocals>>

\* Lines 214-220: the iterator yields an entity; every entity that is not
\* the C4 is skipped.
CarrierClassName ==
    /\ kind = "BombCarrierInfo"
    /\ pc = "scan"
    /\ Len(seen) < MaxEntities
    /\ \E c \in ClassLookups :
        IF c = "fail"
        THEN /\ Fail("class name")
             /\ class_name' = c
             /\ UNCHANGED <<kind, globals, entities, seen, plantedLocals, carrierLocals>>
        ELSE IF c # CarryableClass
        THEN Continue([class_name |-> c])
        ELSE /\ pc' = "owner_handle"
             /\ class_name' = c
             /\ UNCHANGED <<kind, globals, entities, seen, plantedLocals, carrierLocals, result>>

\* Lines 222-231: the owner handle of the C4; a C4 without a valid owner
\* handle is skipped.
CarrierOwnerHandle ==
    /\ kind = "BombCarrierInfo"
    /\ pc = "owner_handle"
    /\ \/ /\ \E msg \in {"entity_ptr", "C4 entity nullptr", "m_hOwnerEntity"} : Fail(msg)
          /\ UNCHANGED <<kind, globals, entities, seen, class_name, plantedLocals, carrierLocals>>
       \/ \E h \in Handles :
            IF ~is_valid(h)
            THEN Continue([class_name |-> class_name, m_hOwnerEntity |-> h])
            ELSE /\ owner_handle' = h
                 /\ pc' = "owner_entity"
                 /\ UNCHANGED <<kind, globals, entities, seen, class_name, plantedLocals,
                                owner_pawn, name_chain, carrier_name, result>>

\* Faulty variant of CarrierOwnerEntity: an owner handle without an identity
\* ends the scan with the all-absent snapshot.
CarrierOwnerEntity_GiveUp ==
    /\ kind = "BombCarrierInfo"
    /\ pc = "owner_entity"
    /\ \E r \in entity_from_handle(owner_handle) :
        IF r = "missing"
        THEN /\ Return(BombCarrierInfo(None, None, None))
             /\ UNCHANGED <<kind, globals, entities, seen, class_name, plantedLocals,
                            carrierLocals>>
        ELSE IF r = "nullptr"
        THEN /\ Fail("owner pawn nullptr")
             /\ UNCHANGED <<kind, globals, entities, seen, class_name, plantedLocals,
                            carrierLocals>>
        ELSE /\ pc' = "owner_pawn"
             /\ UNCHANGED <<kind, globals, entities, seen, class_name, plantedLocals,
                            carrierLocals, result>>

\* Lines 233-238: the owner handle is resolved; without an identity for it
\* the `if let` body is not entered and the loop goes on.
CarrierOwnerEntity ==
    /\ kind = "BombCarrierInfo"
    /\ pc = "owner_entity"
    /\ \E r \in entity_from_handle(owner_handle) :
        IF r = "missing"
        THEN Continue([class_name |-> class_name, m_hOwnerEntity |-> owner_handle,
                       owner_entity |-> r])
        ELSE IF r = "nullptr"
        THEN /\ Fail("owner pawn nullptr")
             /\ UNCHANGED <<kind, globals, entities, seen, class_name, plantedLocals, carrierLocals>>
        ELSE /\ pc' = "owner_pawn"
             /\ UNCHANGED <<kind, globals, entities, seen, class_name, plantedLocals,
                            carrierLocals, result>>

\* Lines 240-241: the controller handle and the team of the owner pawn.
CarrierOwnerPawn ==
    /\ kind = "BombCarrierInfo"
    /\ pc = "owner_pawn"
    /\ \/ /\ \E msg \in {"m_hController", "m_iTeamNum"} : Fail(msg)
          /\ UNCHANGED owner_pawn
       \/ /\ owner_pawn' \in OwnerPawns
          /\ pc' = "carrier_name"
          /\ UNCHANGED result
    /\ UNCHANGED <<kind, globals, entities, seen, class_name, plantedLocals, owner_handle,
                   name_chain, carrier_name>>

\* Lines 243-259: what the name chain can meet for controller handle h.
NameChains(h) ==
    IF ~is_valid(h)
    THEN {[controller |-> "invalid", name |-> None]}
    ELSE {[controller |-> r, name |-> None] : r \in entity_from_handle(h) \ {"ok"}}
         \cup {[controller |-> "ok", name |-> Some(n)] : n \in NameReads}

\* Faulty variant of CarrierName: the "Name Error" fallback of lines 167-172
\* for a buffer without a NUL.
CarrierName_Placeholder(nc) ==
    IF nc.controller # "ok" THEN None
    ELSE IF nc.name.value.r = "err" THEN None
    ELSE Some(DefuserName(nc.name.value.bytes))

\* Lines 243-259: the name the chain nc yields.
CarrierName(nc) ==
    IF nc.controller # "ok" THEN None
    ELSE IF nc.name.value.r = "err" THEN None
    ELSE from_bytes_until_nul(nc.name.value.bytes)

\* Lines 243-259: the name of the carrier, None on every failure.
CarrierNameChain ==
    /\ kind = "BombCarrierInfo"
    /\ pc = "carrier_name"
    /\ \E nc \in NameChains(owner_pawn.m_hController) :
        /\ name_chain' = nc
        /\ carrier_name' = CarrierName(nc)
    /\ pc' = "return"
    /\ UNCHANGED <<kind, globals, entities, seen, class_name, plantedLocals, owner_handle,
                   owner_pawn, result>>

\* Faulty variant of Carrier: the team id is left out.
Carrier_NoTeam(handle, name, team_id) ==
    BombCarrierInfo(Some(get_entity_index(handle)), name, None)

\* Lines 261-265: the snapshot of the first owned C4.
Carrier(handle, name, team_id) ==
    BombCarrierInfo(Some(get_entity_index(handle)), name, Some(team_id))

\* Lines 270-274.
NoCarrier == BombCarrierInfo(None, None, None)

\* Lines 261-265.
CarrierReturn ==
    /\ kind = "BombCarrierInfo"
    /\ pc = "return"
    /\ Return(Carrier(owner_handle, carrier_name, owner_pawn.m_iTeamNum))
    /\ UNCHANGED <<kind, globals, entities, seen, class_name, plantedLocals, carrierLocals>>

\* Lines 214 and 269-274: the iterator is exhausted.
CarrierNotFound ==
    /\ kind = "BombCarrierInfo"
    /\ pc = "scan"
    /\ entities' = "exhausted"
    /\ Return(NoCarrier)
    /\ UNCHANGED <<kind, globals, seen, class_name, plantedLocals, carrierLocals>>

NextCarrier ==
    \/ CarrierResolve
    \/ CarrierClassName
    \/ CarrierOwnerHandle
    \/ CarrierOwnerEntity
    \/ CarrierOwnerPawn
    \/ CarrierNameChain
    \/ CarrierReturn
    \/ CarrierNotFound

Next == NextPlanted \/ NextCarrier

Spec == Init /\ [][Next]_vars

\* ------------------------------------------------------------- properties
\* IEEE-754 `a > b`: false as soon as one side is NaN.
FGt(a, b) == ~IsNaN(a) /\ ~IsNaN(b) /\ ~FLe(a, b)

Done == pc = "done"
IsPlanted == kind = "PlantedC4"
IsCarrier == kind = "BombCarrierInfo"

\* The current entity is a planted bomb whose copy and position were read and
\* whose activated flag is set: the first activated bomb the scan has found.
Found == IsPlanted /\ bomb.read /\ position # NoPosition /\ bomb.m_bC4Activated

\* The call returned a PlantedC4 snapshot.
PlantedOk == IsPlanted /\ Done /\ result.ok

\* The call returned a BombCarrierInfo snapshot.
CarrierOk == IsCarrier /\ Done /\ result.ok

\* C1: every PlantedC4 snapshot returned has a defuser only in state Active;
\* Detonated, Defused and NotPlanted never come with a defuser.
C1_DefuserOnlyWhenActive ==
    PlantedOk => (result.value.defuser.some => result.value.state.tag = "Active")

C1_Witness ==
    /\ PlantedOk
    /\ result.value.state.tag = "Active"
    /\ result.value.defuser.some

\* C2: when the first activated bomb found has its defused flag set, the call
\* returns Defused without a defuser, whatever the detonation time, the
\* being-defused flag and the defuser chain are.
C2_DefusedFirst ==
    (Done /\ Found /\ bomb.m_bBombDefused)
        => /\ result = Ok(PlantedC4(bomb.m_nBombSite, Defused, position, None))
           /\ chain = NoChain

\* A defused bomb whose detonation time has passed and that is being defused.
C2_Witness ==
    /\ Done /\ Found /\ bomb.m_bBombDefused
    /\ FLe(bomb.m_flC4Blow, globals)
    /\ bomb.m_bBeingDefused
    /\ result.ok

\* C3: when the first activated bomb found is not defused and its detonation
\* time is <= the clock, the call returns Detonated without a defuser, also
\* when the bomb is being defused; the defuser chain is not consulted.
C3_DetonatedBeforeDefusing ==
    (Done /\ Found /\ ~bomb.m_bBombDefused /\ FLe(bomb.m_flC4Blow, globals))
        => /\ result = Ok(PlantedC4(bomb.m_nBombSite, Detonated, position, None))
           /\ chain = NoChain

\* A detonated bomb that is being defused, its detonation time equal to the clock.
C3_Witness ==
    /\ Done /\ Found /\ ~bomb.m_bBombDefused
    /\ bomb.m_flC4Blow = globals /\ ~IsNaN(globals)
    /\ bomb.m_bBeingDefused
    /\ result.ok

\* The bomb found is ticking and being defused.
BeingDefused ==
    /\ Found /\ ~bomb.m_bBombDefused
    /\ FGt(bomb.m_flC4Blow, globals)
    /\ bomb.m_bBeingDefused

\* Both handles of the defuser chain resolved to a reference.
HandlesResolve == chain.pawn = "ok" /\ chain.controller = "ok"

\* Both handles resolved and the controller's name buffer was read.
ChainComplete == HandlesResolve /\ chain.name.value.r = "ok"

\* C4 as stated: for a ticking bomb that is being defused the call has exactly
\* two outcomes: Active with a defuser whose time_remaining is
\* defuse_countdown - clock when both handles resolve, a failure when one does
\* not; never Active without a defuser, never NotPlanted.
C4_TwoOutcomes ==
    (Done /\ BeingDefused)
        => /\ HandlesResolve
                => /\ result.ok
                   /\ result.value.state.tag = "Active"
                   /\ result.value.defuser.some
                   /\ result.value.defuser.value.time_remaining
                        = FSub(bomb.m_flDefuseCountDown, globals)
           /\ ~HandlesResolve => ~result.ok
           /\ result.ok => /\ result.value.state.tag = "Active"
                           /\ result.value.defuser.some

\* C4, amended: for a ticking bomb that is being defused the call returns
\* Active with a defuser whose time_remaining is defuse_countdown - clock when
\* both handles resolve and the read of the controller's name buffer
\* succeeds, and fails in every other case; never Active without a defuser,
\* never NotPlanted.
C4_TwoOutcomesNameRead ==
    (Done /\ BeingDefused)
        => /\ ChainComplete
                => result = Ok(PlantedC4(
                                 bomb.m_nBombSite,
                                 Active(FSub(bomb.m_flC4Blow, globals)),
                                 position,
                                 Some(BombDefuser(
                                        FSub(bomb.m_flDefuseCountDown, globals),
                                        DefuserName(chain.name.value.bytes)))))
           /\ ~ChainComplete => ~result.ok

\* A ticking bomb that is being defused, returned with its defuser.
C4_Witness ==
    /\ Done /\ BeingDefused
    /\ ChainComplete
    /\ result.ok
    /\ result.value.defuser.some

\* C5 as stated: a planted bomb that is not activated never ends the call, and
\* a scan that reaches the end of the directory returns NotPlanted.
C5_InactiveBombNeverFails ==
    /\ (IsPlanted /\ bomb.read /\ ~bomb.m_bC4Activated) => ~Done
    /\ (IsPlanted /\ entities = "exhausted")
            => result = Ok(PlantedC4(0, NotPlanted, Origin, None))

\* No entity the scan has left behind had the planted-bomb class.
NoPlantedSeen == \A k \in 1..Len(seen) : seen[k].class_name # PlantedClass

\* C6: when no class lookup of the directory yields the planted-bomb class
\* (another name, or no name), the call succeeds with NotPlanted, bomb_site 0,
\* the origin as position and no defuser.
C6_NotPlanted ==
    (IsPlanted /\ Done /\ entities # "unresolved" /\ NoPlantedSeen
            /\ class_name \notin {PlantedClass, "fail"})
        => result = Ok(PlantedC4(0, NotPlanted, Origin, None))

\* A directory of one entity and more, one of them without a class name.
C6_Witness ==
    /\ IsPlanted /\ Done /\ entities = "exhausted"
    /\ NoPlantedSeen
    /\ \E k \in 1..Len(seen) : seen[k].class_name = "absent"
    /\ result.ok

\* C7 as stated: the clock compared with the detonation time is the value
\* subtracted for time_detonation and time_remaining, and an Active result has
\* time_detonation = detonation_time - clock > 0.
C7_PositiveTime ==
    (PlantedOk /\ result.value.state.tag = "Active")
        => /\ ~FLe(bomb.m_flC4Blow, globals)
           /\ result.value.state.time_detonation = FSub(bomb.m_flC4Blow, globals)
           /\ result.value.defuser.some
                => result.value.defuser.value.time_remaining
                     = FSub(bomb.m_flDefuseCountDown, globals)
           /\ FGt(result.value.state.time_detonation, Num(0))

\* C7, amended: as stated, except that time_detonation is > 0 when neither
\* the detonation time nor the clock is NaN, and is NaN when one of them is.
C7_PositiveTimeUnlessNaN ==
    (PlantedOk /\ result.value.state.tag = "Active")
        => /\ ~FLe(bomb.m_flC4Blow, globals)
           /\ result.value.state.time_detonation = FSub(bomb.m_flC4Blow, globals)
           /\ result.value.defuser.some
                => result.value.defuser.value.time_remaining
                     = FSub(bomb.m_flDefuseCountDown, globals)
           /\ IF IsNaN(bomb.m_flC4Blow) \/ IsNaN(globals)
              THEN IsNaN(result.value.state.time_detonation)
              ELSE FGt(result.value.state.time_detonation, Num(0))

\* An active bomb with a finite detonation time, being defused.
C7_Witness ==
    /\ PlantedOk /\ result.value.state.tag = "Active"
    /\ bomb.m_flC4Blow.k = "num" /\ globals.k = "num"
    /\ result.value.defuser.some

\* C8: every BombCarrierInfo snapshot returned has carrier_entity_id exactly
\* when it has carrier_team_id, and carrier_name only with both.
C8_CarrierFields ==
    CarrierOk
        => /\ result.value.carrier_entity_id.some <=> result.value.carrier_team_id.some
           /\ result.value.carrier_name.some
                => /\ result.value.carrier_entity_id.some
                   /\ result.value.carrier_team_id.some

\* A carrier known by id and team whose name is absent.
C8_Witness ==
    /\ CarrierOk
    /\ result.value.carrier_entity_id.some
    /\ ~result.value.carrier_name.some

\* The entity is a C4 whose owner handle is valid and resolved.
Owned(e) ==
    /\ e.class_name = CarryableClass
    /\ "owner_entity" \in DOMAIN e
    /\ e.owner_entity # "missing"

\* No entity the scan has left behind was an owned C4.
NoOwnedSeen == \A k \in 1..Len(seen) : ~Owned(seen[k])

\* C9: a populated snapshot is built from the first C4 of the scan whose owner
\* handle is valid and resolves; a C4 whose owner handle is invalid or does
\* not resolve is left behind and the scan goes on; the all-absent snapshot
\* is returned once the directory is exhausted without an owned C4, and only
\* then.
C9_FirstOwnedCandidate ==
    /\ IsCarrier => NoOwnedSeen
    /\ (CarrierOk /\ result.value # NoCarrier)
            => /\ class_name = CarryableClass
               /\ is_valid(owner_handle)
               /\ result.value = BombCarrierInfo(Some(owner_handle.index),
                                                 carrier_name,
                                                 Some(owner_pawn.m_iTeamNum))
    /\ (IsCarrier /\ entities = "exhausted") => result = Ok(NoCarrier)
    /\ (CarrierOk /\ result.value = NoCarrier) => entities = "exhausted"

\* A scan that left behind a C4 with an invalid owner handle and one whose
\* owner handle did not resolve, and returned the carrier of a third.
C9_Witness ==
    /\ CarrierOk /\ result.value # NoCarrier
    /\ \E k \in 1..Len(seen) : seen[k].class_name = CarryableClass
                                /\ "owner_entity" \notin DOMAIN seen[k]
    /\ \E k \in 1..Len(seen) : seen[k].class_name = CarryableClass
                                /\ "owner_entity" \in DOMAIN seen[k]

\* The name chain met one of its failures: an invalid controller handle, one
\* that does not resolve, an unreadable name, a name without a NUL.
NameChainFails ==
    \/ name_chain.controller \in {"invalid", "missing", "nullptr"}
    \/ /\ name_chain.controller = "ok"
       /\ \/ name_chain.name.value.r = "err"
          \/ \A i \in 1..NameLen : name_chain.name.value.bytes[i] # 0

\* C10: once the owner pawn of a C4 was read, every failure of the name chain
\* leaves the call successful, with carrier_name absent and with the entity
\* index of the owner handle and the team of the owner present.
C10_NameFailuresAreSoft ==
    (IsCarrier /\ Done /\ owner_pawn.read)
        => /\ result.ok
           /\ result.value.carrier_entity_id = Some(owner_handle.index)
           /\ result.value.carrier_team_id = Some(owner_pawn.m_iTeamNum)
           /\ NameChainFails => ~result.value.carrier_name.some
           /\ ~NameChainFails => result.value.carrier_name.some

\* A carrier whose name buffer holds no NUL.
C10_Witness ==
    /\ IsCarrier /\ Done /\ owner_pawn.read
    /\ name_chain.controller = "ok"
    /\ name_chain.name.value.r = "ok"
    /\ \A i \in 1..NameLen : name_chain.name.value.bytes[i] # 0
    /\ result.ok

====
